---------------------------- MODULE Spec2Model ----------------------------
(***************************************************************************)
(* CK2::World (src/CK2ToEU4/Source/Mappers/MonumentsMapper/                *)
(* MonumentsMapping.cpp, lines 87-818): the political restructuring        *)
(* pipeline run by the World constructor and the succession resolver.      *)
(*                                                                         *)
(* Titles are keyed by tag, characters and provinces by integer ID; the    *)
(* ID 0 and the tag "" stand for an empty std::pair (no holder, no liege,  *)
(* no heir).  Title, Character and Province are classes of the repository  *)
(* whose bodies are not in the source file; their accessors and mutators   *)
(* are modelled from the specification and named as such in the map.       *)
(***************************************************************************)
EXTENDS Integers, Sequences, FiniteSets, TLC

(***************************************************************************)
(* Bounds of the model.                                                    *)
(***************************************************************************)
NumChars == 2        \* title holders are characters 1..NumChars
NumProvinces == 4   \* provinces carry the IDs 1..NumProvinces
NumChildren == 3     \* children carry the IDs 10..9+NumChildren

(***************************************************************************)
(* The title table.  std::map<std::string, ...> iterates in tag order;     *)
(* TitleOrder lists the tags of the model in that (lexicographic) order.   *)
(***************************************************************************)
TitleOrder ==
    << "b_a", "c_a", "c_b", "c_c", "c_d", "d_a", "d_b", "e_hre", "k_a", "k_orthodox",
       "k_papal_state" >>

Titles == { TitleOrder[i] : i \in 1..Len(TitleOrder) }

NoTitle == ""

Rank(t) == CHOOSE i \in 1..Len(TitleOrder) : TitleOrder[i] = t

\* tag.find(prefix) == 0, for the two-letter tier prefixes
TagPrefix(t) ==
    CASE t \in {"b_a"} -> "b_"
      [] t \in {"c_a", "c_b", "c_c", "c_d"} -> "c_"
      [] t \in {"d_a", "d_b"} -> "d_"
      [] t \in {"e_hre", "e_byzantium", "e_roman_empire", "e_outremer",
                "e_china_west_governor"} -> "e_"
      [] t \in {"k_a", "k_papal_state", "k_orthodox"} -> "k_"
      [] OTHER -> ""

StartsWith(t, p) == TagPrefix(t) = p

Characters == 1..NumChars
Children == 10..(9 + NumChildren)
NoCharacter == 0

\* date("1.1.1"), the death date of the living
NoDeath == "1.1.1"
Provinces == 1..NumProvinces

\* The province the province-title mapper links to a county.
CountyProvince(t) ==
    CASE t = "c_a" -> {1}
      [] t = "c_b" -> {2}
      [] t = "c_c" -> {3}
      [] t = "c_d" -> {4}
      [] OTHER -> {}

VARIABLES
    pc,                 \* the stage of the World constructor about to run
    hreMode,            \* Configuration::getHRE()
    shatterEmpiresMode, \* Configuration::getShatterEmpires()
    shatterLevel,       \* Configuration::getShatterLevel()
    holder,             \* Title::holder.first
    liege,              \* Title::liege.first
    deJureLiege,        \* Title::deJureLiege.first
    vassals,            \* Title::vassals (tags)
    provinces,          \* Title::provinces (IDs)
    inHRE,              \* titles flagged by Title::setInHRE
    hreEmperor,         \* titles flagged by Title::setHREEmperor
    generatedLiege,     \* Title::generatedLiege.first
    generatedVassals,   \* Title::generatedVassals (tags)
    independentTitles,  \* World::independentTitles (tags)
    holdingTitle,       \* Province::holdingTitle.first
    government,         \* Character::government
    warnings,           \* provinces named in a "Province ID: ... is owned by" warning
    sanity,             \* the closing message of sanityCheckifyProvinces
    successionLaw,      \* Title::successionLaw
    genderLaw,          \* Title::genderLaw
    children,           \* Character::children (IDs)
    female,             \* Character::female
    deathDate,          \* Character::deathDate
    prestige,           \* Character::prestige, counted in halves
    heir,               \* Character::heir.first
    yearsAdded,         \* the years Character::addYears has added
    resolved            \* the titles the loop of determineHeirs has passed

titleVars == << holder, liege, deJureLiege, vassals, provinces, inHRE, hreEmperor,
                generatedLiege, generatedVassals >>
configVars == << hreMode, shatterEmpiresMode, shatterLevel >>
successionVars == << successionLaw, genderLaw, children, female, deathDate, prestige,
                     heir, yearsAdded, resolved >>
vars == << pc, configVars, titleVars, independentTitles, holdingTitle, government,
           warnings, sanity, successionVars >>

----------------------------------------------------------------------------
(***************************************************************************)
(* Title helpers.                                                          *)
(***************************************************************************)

\* Title::coalesceProvinces: the provinces of a title and of its whole vassal tree.
RECURSIVE coalesceProvinces(_, _, _)
coalesceProvinces(vs, ps, t) ==
    ps[t] \cup UNION { coalesceProvinces(vs, ps, v) : v \in vs[t] }

\* Title::congregateProvinces(independentTitles): the title's province set after
\* it has absorbed the provinces of its vassal trees, independent vassals excepted.
TitleCongregateProvinces(vs, ps, indeps, t) ==
    ps[t] \cup UNION { coalesceProvinces(vs, ps, v) : v \in vs[t] \ indeps }

\* The members of a set of tags, in the iteration order of a std::map.
RECURSIVE InTagOrder(_)
InTagOrder(S) ==
    IF S = {} THEN << >>
    ELSE LET first == CHOOSE t \in S : \A u \in S : Rank(t) <= Rank(u)
         IN  << first >> \o InTagOrder(S \ {first})

----------------------------------------------------------------------------
(***************************************************************************)
(* The state the World constructor has built when the linker is done       *)
(* (line 221): every title has at most one liege, of a higher tier, and    *)
(* Titles::linkVassals has registered it among that liege's vassals.       *)
(***************************************************************************)
\* The functions on Titles that take one of choices[t] at every tag t.
RECURSIVE ChoiceSeqs(_, _)
ChoiceSeqs(choices, n) ==
    IF n = 0 THEN { << >> }
    ELSE { Append(s, x) : s \in ChoiceSeqs(choices, n - 1), x \in choices[TitleOrder[n]] }

ChoiceFunctions(choices) ==
    { [t \in Titles |-> s[Rank(t)]] : s \in ChoiceSeqs(choices, Len(TitleOrder)) }

LiegeChoices == [t \in Titles |->
    CASE t = "e_hre" -> {NoTitle}
      [] t = "k_a" -> {NoTitle, "e_hre"}
      [] t = "k_orthodox" -> {"e_hre"}
      [] t = "k_papal_state" -> {"e_hre"}
      [] t = "d_a" -> {"k_a", "e_hre"}
      [] t = "d_b" -> {"k_a", "k_papal_state"}
      [] t = "c_a" -> {"d_a", "k_a", "e_hre"}
      [] t = "c_b" -> {NoTitle, "d_a"}
      [] t = "c_c" -> {"d_b"}
      [] t = "c_d" -> {NoTitle}
      [] t = "b_a" -> {NoTitle, "k_a"}]

HolderChoices == [t \in Titles |->
    CASE t = "e_hre" -> {1}
      [] t = "k_a" -> 0..NumChars
      [] t = "k_orthodox" -> {2}
      [] t = "k_papal_state" -> {2}
      [] t = "d_a" -> 0..NumChars
      [] t = "d_b" -> {2}
      [] t = "c_a" -> Characters
      [] t = "c_b" -> {2}
      [] t = "c_c" -> {2}
      [] t = "c_d" -> {0}
      [] t = "b_a" -> {2}]

DeJureChoices == [t \in Titles |->
    CASE t = "b_a" -> {NoTitle, "c_a"}
      [] OTHER -> {NoTitle}]

Governments == {"feudal_government", "tribal_government", "nomadic_government"}

GovernmentChoices == [c \in Characters |->
    IF c = 1 THEN {"feudal_government", "tribal_government"}
    ELSE {"feudal_government"}]

\* (getHRE, getShatterEmpires, getShatterLevel)
ConfigChoices ==
    { << "NONE", "NONE", "KINGDOM" >>, << "NONE", "ALL", "KINGDOM" >>,
      << "NONE", "ALL", "DUCHY" >>, << "HRE", "NONE", "KINGDOM" >>,
      << "HRE", "ALL", "DUCHY" >>,
      << "BYZANTIUM", "ALL", "DUCHY" >> }

\* No title has been through determineHeirs, and no character has children.
NoSuccession ==
    /\ successionLaw = [t \in Titles |-> "primogeniture"]
    /\ genderLaw = [t \in Titles |-> "agnatic"]
    /\ children = [c \in Characters |-> {}]
    /\ female = [c \in Children |-> FALSE]
    /\ deathDate = [c \in Children |-> NoDeath]
    /\ prestige = [c \in Children |-> 0]
    /\ heir = [c \in Characters |-> NoCharacter]
    /\ yearsAdded = [c \in Children |-> 0]
    /\ resolved = {}

InitWorld ==
    /\ pc = "mergeIndependentBaronies"
    /\ \E cfg \in ConfigChoices :
          /\ hreMode = cfg[1]
          /\ shatterEmpiresMode = cfg[2]
          /\ shatterLevel = cfg[3]
    /\ holder \in ChoiceFunctions(HolderChoices)
    /\ liege \in ChoiceFunctions(LiegeChoices)
    /\ deJureLiege \in ChoiceFunctions(DeJureChoices)
    /\ vassals = [t \in Titles |-> { v \in Titles : liege[v] = t }]
    /\ provinces = [t \in Titles |-> CountyProvince(t)]
    /\ inHRE = {}
    /\ hreEmperor = {}
    /\ generatedLiege = [t \in Titles |-> NoTitle]
    /\ generatedVassals = [t \in Titles |-> {}]
    /\ independentTitles = {}
    /\ holdingTitle = [p \in Provinces |-> NoTitle]
    /\ government \in { g \in [Characters -> Governments] :
                          \A c \in Characters : g[c] \in GovernmentChoices[c] }
    /\ warnings = {}
    /\ sanity = "unset"
    /\ NoSuccession

----------------------------------------------------------------------------
(***************************************************************************)
(* The stages of the World constructor, lines 222-244, in their order.     *)
(* Titles::mergeRevolts and gatherCourtierNames touch neither the title    *)
(* graph of a save without revolts nor the independent-title set.          *)
(***************************************************************************)

\* mergeIndependentBaronies, lines 616-638.  Title::overrideLiege puts the
\* de-jure liege in the place of the liege.
MergeIndependentBaronies ==
    /\ pc = "mergeIndependentBaronies"
    /\ liege' = [t \in Titles |->
                   IF /\ holder[t] # 0
                      /\ liege[t] = NoTitle
                      /\ StartsWith(t, "b_")
                      /\ StartsWith(deJureLiege[t], "c_")
                   THEN deJureLiege[t]
                   ELSE liege[t]]
    /\ pc' = "shatterHRE"
    /\ UNCHANGED << configVars, holder, deJureLiege, vassals, provinces, inHRE,
                    hreEmperor, generatedLiege, generatedVassals, independentTitles,
                    holdingTitle, government, warnings, sanity, successionVars >>

\* The switch of shatterHRE, lines 742-749; the custom mapping is not configured.
HreTitle(mode) ==
    CASE mode = "HRE" -> "e_hre"
      [] mode = "BYZANTIUM" -> "e_byzantium"
      [] mode = "ROME" -> "e_roman_empire"
      [] OTHER -> "e_hre"

\* The hard override for special members, lines 707 and 770.
SpecialMembers == {"k_papal_state", "k_orthodox"}

\* shatterHRE without the hard override of line 770.
HreBrickedNoOverride(vs, hre) == { v \in vs[hre] : StartsWith(v, "k_") }

\* The kingdoms shatterHRE bricks, lines 769-781.
HreBricked(vs, hre) ==
    { v \in vs[hre] : StartsWith(v, "k_") /\ v \notin SpecialMembers }

\* The map hreMembers that the loop of lines 765-785 composes.
HreMembers(vs, hre) ==
    { v \in vs[hre] : StartsWith(v, "d_") \/ StartsWith(v, "c_") }
        \cup { v \in vs[hre] : StartsWith(v, "k_") /\ v \in SpecialMembers }
        \cup UNION { vs[k] : k \in HreBricked(vs, hre) }

\* The loop of lines 787-798 without the flag emperorSet.
HreEmperorOfEveryOwn(members, hs, hre) == { m \in members : hs[m] = hs[hre] }

\* The member the loop of lines 787-798 flags as emperor: the first in tag
\* order whose holder is the holder of the empire; {} when there is none.
HreEmperorOf(members, hs, hre) ==
    LET own == { m \in members : hs[m] = hs[hre] }
    IN  { m \in own : \A u \in own : Rank(m) <= Rank(u) }

\* shatterHRE, lines 735-804.
ShatterHRE ==
    /\ pc = "shatterHRE"
    /\ pc' = "shatterEmpires"
    /\ LET hre == HreTitle(hreMode) IN
       IF hreMode = "NONE" \/ hre \notin Titles \/ vassals[hre] = {}
       THEN UNCHANGED << holder, liege, vassals, inHRE, hreEmperor >>
       ELSE LET bricked == HreBricked(vassals, hre)
                members == HreMembers(vassals, hre)
            IN  /\ vassals' = [t \in Titles |->
                                 IF t = hre \/ t \in bricked THEN {} ELSE vassals[t]]
                /\ holder' = [t \in Titles |->
                                IF t = hre \/ t \in bricked THEN 0 ELSE holder[t]]
                /\ liege' = [t \in Titles |->
                               IF t \in bricked \/ t \in members THEN NoTitle ELSE liege[t]]
                /\ inHRE' = inHRE \cup members
                /\ hreEmperor' = hreEmperor \cup HreEmperorOf(members, holder, hre)
    /\ UNCHANGED << configVars, deJureLiege, provinces, generatedLiege, generatedVassals,
                    independentTitles, holdingTitle, government, warnings, sanity, successionVars >>

\* shatterEmpires without the hard override of line 707.
EmpireBrickedNoOverride(vs, e, shatterKingdoms) ==
    { v \in vs[e] : StartsWith(v, "k_") /\ shatterKingdoms }

\* The kingdoms one empire's pass of shatterEmpires bricks, lines 706-714.
EmpireBricked(vs, e, shatterKingdoms) ==
    { v \in vs[e] : StartsWith(v, "k_") /\ shatterKingdoms /\ v \notin SpecialMembers }

\* The map members of one empire, lines 702-722.
EmpireMembers(vs, e, shatterKingdoms) ==
    { v \in vs[e] : StartsWith(v, "d_") \/ StartsWith(v, "c_") }
        \cup { v \in vs[e] : StartsWith(v, "k_")
                              /\ ~(shatterKingdoms /\ v \notin SpecialMembers) }
        \cup UNION { vs[k] : k \in EmpireBricked(vs, e, shatterKingdoms) }

\* The empires shatterEmpires shatters, lines 697-699.
ShatteredEmpires(vs) == { e \in Titles : StartsWith(e, "e_") /\ vs[e] # {} }

\* shatterEmpires, lines 683-733.  An empire's pass reads and writes only the
\* empire, its vassals and the vassals of its kingdoms, so the passes of
\* different empires do not meet.
ShatterEmpires ==
    /\ pc = "shatterEmpires"
    /\ pc' = "filterIndependentTitles"
    /\ IF shatterEmpiresMode = "NONE"
       THEN UNCHANGED << holder, liege, vassals >>
       ELSE LET shatterKingdoms == (shatterLevel # "KINGDOM")
                empires == ShatteredEmpires(vassals)
                bricked == UNION { EmpireBricked(vassals, e, shatterKingdoms) : e \in empires }
                members == UNION { EmpireMembers(vassals, e, shatterKingdoms) : e \in empires }
            IN  /\ vassals' = [t \in Titles |->
                                 IF t \in empires \/ t \in bricked THEN {} ELSE vassals[t]]
                /\ holder' = [t \in Titles |->
                                IF t \in empires \/ t \in bricked THEN 0 ELSE holder[t]]
                /\ liege' = [t \in Titles |->
                               IF t \in bricked \/ t \in members THEN NoTitle ELSE liege[t]]
    /\ UNCHANGED << configVars, deJureLiege, provinces, inHRE, hreEmperor, generatedLiege,
                    generatedVassals, independentTitles, holdingTitle, government,
                    warnings, sanity, successionVars >>

\* The set countyHolders of filterIndependentTitles, lines 598-601.
CountyHolders(hs) == { hs[t] : t \in { u \in Titles : hs[u] # 0 /\ StartsWith(u, "c_") } }

\* The map potentialIndeps of filterIndependentTitles, lines 582-590.
PotentialIndeps(hs, ls) == { t \in Titles : hs[t] # 0 /\ ls[t] = NoTitle }

\* filterIndependentTitles without the look at countyHolders of line 607.
RecognizedIndepsLandless(hs, ls) == PotentialIndeps(hs, ls)

\* The titles filterIndependentTitles inserts, lines 605-612.
RecognizedIndeps(hs, ls) == { t \in PotentialIndeps(hs, ls) : hs[t] \in CountyHolders(hs) }

\* filterIndependentTitles, lines 577-614.
FilterIndependentTitles ==
    /\ pc = "filterIndependentTitles"
    /\ pc' = "splitVassals"
    /\ independentTitles' = independentTitles \cup RecognizedIndeps(holder, liege)
    /\ UNCHANGED << configVars, titleVars, holdingTitle, government, warnings, sanity, successionVars >>

\* Line 503 without the test for k_papal_state.
SplitProtectedNoPapalState == {"e_outremer", "e_china_west_governor"}

\* The tags splitVassals does not touch, line 503.
SplitProtected == {"k_papal_state", "e_outremer", "e_china_west_governor"}

\* relevantVassalPrefix, lines 507-513; "" when the title is not split.
RelevantVassalPrefix(t) ==
    IF StartsWith(t, "e_") THEN "k_"
    ELSE IF StartsWith(t, "k_") THEN "d_"
    ELSE ""

\* The lieges splitVassals looks into, lines 503-513.
SplitEligible(t, hs, gov) ==
    /\ t \notin SplitProtected
    /\ gov[hs[t]] # "tribal_government"
    /\ gov[hs[t]] # "nomadic_government"
    /\ RelevantVassalPrefix(t) # ""

\* relevantVassals, lines 514-518.
RelevantVassals(t, vs, ps) ==
    Cardinality({ v \in vs[t] : /\ StartsWith(v, RelevantVassalPrefix(t))
                                /\ coalesceProvinces(vs, ps, v) # {} })

\* The threshold of line 527 without its division by relevantVassals.
ExceedsThresholdUndivided(vassalClaimed, claimed, relevant) ==
    10 * vassalClaimed > 10 * claimed + claimed

\* vassalProvincesClaimed.size() > threshold, lines 527-528, where threshold is
\* the double claimed / relevant + 0.1 * claimed.  For the province counts of
\* the model the double comparison agrees with the exact one.
ExceedsThreshold(vassalClaimed, claimed, relevant) ==
    10 * relevant * vassalClaimed > 10 * claimed + relevant * claimed

\* The vassals of one independent title that go to newIndeps, lines 519-529.
SplitFrom(t, hs, vs, ps) ==
    IF RelevantVassals(t, vs, ps) = 0 THEN {}
    ELSE { v \in vs[t] :
             /\ StartsWith(v, RelevantVassalPrefix(t))
             /\ hs[v] # hs[t]
             /\ ExceedsThreshold(Cardinality(coalesceProvinces(vs, ps, v)),
                                 Cardinality(coalesceProvinces(vs, ps, t)),
                                 RelevantVassals(t, vs, ps)) }

\* The map newIndeps of splitVassals, lines 498-530.
NewIndeps(indeps, hs, vs, ps, gov) ==
    UNION { SplitFrom(t, hs, vs, ps) : t \in { u \in indeps : SplitEligible(u, hs, gov) } }

\* splitVassals, lines 496-541.
SplitVassals ==
    /\ pc = "splitVassals"
    /\ pc' = "congregateProvinces"
    /\ LET newIndeps == NewIndeps(independentTitles, holder, vassals, provinces, government)
       IN  /\ generatedVassals' = [t \in Titles |->
                                     generatedVassals[t] \cup { v \in newIndeps : liege[v] = t }]
           /\ liege' = [t \in Titles |-> IF t \in newIndeps THEN NoTitle ELSE liege[t]]
           /\ generatedLiege' = [t \in Titles |->
                                   IF t \in newIndeps THEN liege[t] ELSE generatedLiege[t]]
           /\ independentTitles' = independentTitles \cup newIndeps
    /\ UNCHANGED << configVars, holder, deJureLiege, vassals, provinces, inHRE, hreEmperor,
                    holdingTitle, government, warnings, sanity, successionVars >>

\* One pass of the loop of congregateProvinces, lines 645-650, over the titles
\* of the sequence order: the province sets and the holding titles it leaves.
RECURSIVE CongregateLoop(_, _, _, _, _)
CongregateLoop(order, indeps, vs, ps, ht) ==
    IF order = << >> THEN [provinces |-> ps, holdingTitle |-> ht]
    ELSE LET t == Head(order)
             mine == TitleCongregateProvinces(vs, ps, indeps, t)
         IN  CongregateLoop(Tail(order), indeps, vs,
                            [ps EXCEPT ![t] = mine],
                            [p \in DOMAIN ht |-> IF p \in mine THEN t ELSE ht[p]])

\* The loop with lines 647-648 run before line 646: the holding titles are
\* loaded from the province set the title had before it congregated.
RECURSIVE CongregateLoopRefsFirst(_, _, _, _, _)
CongregateLoopRefsFirst(order, indeps, vs, ps, ht) ==
    IF order = << >> THEN [provinces |-> ps, holdingTitle |-> ht]
    ELSE LET t == Head(order)
             mine == TitleCongregateProvinces(vs, ps, indeps, t)
         IN  CongregateLoopRefsFirst(Tail(order), indeps, vs,
                                     [ps EXCEPT ![t] = mine],
                                     [p \in DOMAIN ht |-> IF p \in ps[t] THEN t ELSE ht[p]])

CongregateResultRefsFirst(indeps, vs, ps, ht) ==
    CongregateLoopRefsFirst(InTagOrder(indeps), indeps, vs, ps, ht)

\* World::congregateProvinces, lines 640-652.
CongregateResult(indeps, vs, ps, ht) == CongregateLoop(InTagOrder(indeps), indeps, vs, ps, ht)

CongregateProvinces ==
    /\ pc = "congregateProvinces"
    /\ pc' = "sanityCheckifyProvinces"
    /\ LET r == CongregateResult(independentTitles, vassals, provinces, holdingTitle)
       IN  /\ provinces' = r.provinces
           /\ holdingTitle' = r.holdingTitle
    /\ UNCHANGED << configVars, holder, liege, deJureLiege, vassals, inHRE, hreEmperor,
                    generatedLiege, generatedVassals, independentTitles, government,
                    warnings, sanity, successionVars >>

\* provinceTitlesMap[province] of sanityCheckifyProvinces, lines 662-667: the
\* independent titles that own the province.
ProvinceTitles(indeps, ps, p) == { t \in indeps : p \in ps[t] }

\* The loop of lines 669-678 with the test of line 670 off by one.
ExcessProvincesOffByOne(indeps, ps) ==
    { p \in Provinces : Cardinality(ProvinceTitles(indeps, ps, p)) > 2 }

\* The provinces the loop of lines 669-678 warns about.
ExcessProvinces(indeps, ps) ==
    { p \in Provinces : Cardinality(ProvinceTitles(indeps, ps, p)) > 1 }

\* sanityCheckifyProvinces, lines 655-681.
SanityCheckifyProvinces ==
    /\ pc = "sanityCheckifyProvinces"
    /\ pc' = "filterProvincelessTitles"
    /\ warnings' = ExcessProvinces(independentTitles, provinces)
    /\ sanity' = IF ExcessProvinces(independentTitles, provinces) = {}
                 THEN "passed" ELSE "failed"
    /\ UNCHANGED << configVars, titleVars, independentTitles, holdingTitle, government,
                    successionVars >>

\* filterProvincelessTitles without the erase of line 814: nothing is disposed of.
TitlesForDisposalNotErased(indeps, ps) == {}

\* The loop of lines 810-812 with the test of line 811 negated.
TitlesForDisposalLanded(indeps, ps) == { t \in indeps : ps[t] # {} }

\* titlesForDisposal of filterProvincelessTitles, lines 809-812.
TitlesForDisposal(indeps, ps) == { t \in indeps : ps[t] = {} }

\* filterProvincelessTitles, lines 806-818.
FilterProvincelessTitles ==
    /\ pc = "filterProvincelessTitles"
    /\ pc' = "determineHeirs"
    /\ independentTitles' = independentTitles \ TitlesForDisposal(independentTitles, provinces)
    /\ UNCHANGED << configVars, titleVars, holdingTitle, government, warnings, sanity, successionVars >>

----------------------------------------------------------------------------
(***************************************************************************)
(* The succession resolver, lines 332-460.                                 *)
(***************************************************************************)

\* A set of IDs as the vector std::sort leaves it, and the reverse of it.
RECURSIVE Ascending(_)
Ascending(S) ==
    IF S = {} THEN << >>
    ELSE LET least == CHOOSE c \in S : \A d \in S : c <= d
         IN  << least >> \o Ascending(S \ {least})

RECURSIVE Descending(_)
Descending(S) ==
    IF S = {} THEN << >>
    ELSE LET most == CHOOSE c \in S : \A d \in S : c >= d
         IN  << most >> \o Descending(S \ {most})

\* lround of a prestige given in halves: to the nearest integer, halves away
\* from zero.
Lround(halves) ==
    IF halves >= 0 THEN (halves + 1) \div 2 ELSE -((1 - halves) \div 2)

\* The loop of resolvePrimogeniture without line 394: no look at the next ID.
RECURSIVE PrimogenitureScanNoAdjacent(_, _, _)
PrimogenitureScanNoAdjacent(childVector, son, daughter) ==
    IF childVector = << >> THEN [son |-> son, daughter |-> daughter]
    ELSE LET child == Head(childVector)
             son1 == IF son = NoCharacter /\ ~female[child] THEN child ELSE son
             daughter1 == IF daughter = NoCharacter /\ female[child] THEN child ELSE daughter
             daughter2 == IF daughter1 # NoCharacter /\ female[child] /\ daughter1 = child - 1
                          THEN child ELSE daughter1
         IN  IF deathDate[child] # NoDeath
             THEN PrimogenitureScanNoAdjacent(Tail(childVector), son, daughter)
             ELSE PrimogenitureScanNoAdjacent(Tail(childVector), son1, daughter2)

\* The loop of resolvePrimogeniture, lines 391-397: the candidates son and
\* daughter after the children of childVector.
RECURSIVE PrimogenitureScan(_, _, _)
PrimogenitureScan(childVector, son, daughter) ==
    IF childVector = << >> THEN [son |-> son, daughter |-> daughter]
    ELSE LET child == Head(childVector)
             son1 == IF son = NoCharacter /\ ~female[child] THEN child ELSE son
             son2 == IF son1 # NoCharacter /\ ~female[child] /\ son1 = child - 1
                     THEN child ELSE son1
             daughter1 == IF daughter = NoCharacter /\ female[child] THEN child ELSE daughter
             daughter2 == IF daughter1 # NoCharacter /\ female[child] /\ daughter1 = child - 1
                          THEN child ELSE daughter1
         IN  IF deathDate[child] # NoDeath
             THEN PrimogenitureScan(Tail(childVector), son, daughter)
             ELSE PrimogenitureScan(Tail(childVector), son2, daughter2)

\* The loop of resolveUltimogeniture, lines 435-439.
RECURSIVE UltimogenitureScan(_, _, _)
UltimogenitureScan(childVector, son, daughter) ==
    IF childVector = << >> THEN [son |-> son, daughter |-> daughter]
    ELSE LET child == Head(childVector)
             son1 == IF son = NoCharacter /\ ~female[child] THEN child ELSE son
             daughter1 == IF daughter = NoCharacter /\ female[child] THEN child ELSE daughter
         IN  IF deathDate[child] # NoDeath
             THEN UltimogenitureScan(Tail(childVector), son, daughter)
             ELSE UltimogenitureScan(Tail(childVector), son1, daughter1)

\* Lines 399-423 without the two overrides of lines 415-416.
PrimogenitureByGenderNoPolice(law, son, daughter) ==
    IF law \in {"agnatic", "cognatic"} /\ son # NoCharacter THEN son
    ELSE IF law = "cognatic" /\ daughter # NoCharacter THEN daughter
    ELSE IF law = "true_cognatic" /\ (son # NoCharacter \/ daughter # NoCharacter)
    THEN IF son # NoCharacter /\ daughter # NoCharacter
         THEN IF son < daughter THEN son ELSE daughter
         ELSE IF son # NoCharacter THEN son ELSE daughter
    ELSE NoCharacter

\* Lines 399-423: the character the last setHeir of resolvePrimogeniture is
\* called with, NoCharacter when it calls none.
PrimogenitureByGender(law, son, daughter) ==
    IF law \in {"agnatic", "cognatic"} /\ son # NoCharacter THEN son
    ELSE IF law = "cognatic" /\ daughter # NoCharacter THEN daughter
    ELSE IF law = "true_cognatic" /\ (son # NoCharacter \/ daughter # NoCharacter)
    THEN IF son # NoCharacter /\ daughter # NoCharacter
         THEN LET byId == IF son < daughter THEN son ELSE daughter
                  police1 == IF son = daughter - 1 THEN daughter ELSE byId
              IN  IF daughter = son - 1 THEN son ELSE police1
         ELSE IF son # NoCharacter THEN son ELSE daughter
    ELSE NoCharacter

\* Lines 441-459, the same for resolveUltimogeniture.
UltimogenitureByGender(law, son, daughter) ==
    IF law \in {"agnatic", "cognatic"} /\ son # NoCharacter THEN son
    ELSE IF law = "cognatic" /\ daughter # NoCharacter THEN daughter
    ELSE IF law = "true_cognatic" /\ (son # NoCharacter \/ daughter # NoCharacter)
    THEN IF son # NoCharacter /\ daughter # NoCharacter
         THEN IF son < daughter THEN son ELSE daughter
         ELSE IF son # NoCharacter THEN son ELSE daughter
    ELSE NoCharacter

\* resolvePrimogeniture, lines 378-424: the heir of the holder after the call,
\* given the heir before it.
resolvePrimogeniture(law, h, before) ==
    LET found == PrimogenitureScan(Ascending(children[h]), NoCharacter, NoCharacter)
        set == PrimogenitureByGender(law, found.son, found.daughter)
    IN  IF set # NoCharacter THEN set ELSE before

\* resolveUltimogeniture, lines 426-460.
resolveUltimogeniture(law, h, before) ==
    LET found == UltimogenitureScan(Descending(children[h]), NoCharacter, NoCharacter)
        set == UltimogenitureByGender(law, found.son, found.daughter)
    IN  IF set # NoCharacter THEN set ELSE before

\* resolveTurkish, lines 352-367: the heirs the call can leave.  The vector
\* holds (lround(prestige), pointer) pairs and is sorted ascending, so the
\* first living child is one of least rounded prestige; among equals the
\* order is that of the pointers, which is any.
resolveTurkish(h, before) ==
    LET living == { c \in children[h] : deathDate[c] = NoDeath }
    IN  IF living = {} THEN {before}
        ELSE { c \in living :
                 \A d \in living : Lround(prestige[c]) <= Lround(prestige[d]) }

\* The dispatch of determineHeirs with nomad_succession left out of line 340.
HeirsAfterNoNomad(title, before) ==
    LET h == holder[title]
        law == successionLaw[title]
        gender == genderLaw[title]
    IN  IF law \in {"primogeniture", "elective_gavelkind", "gavelkind"}
        THEN {resolvePrimogeniture(gender, h, before)}
        ELSE IF law = "ultimogeniture"
        THEN {resolveUltimogeniture(gender, h, before)}
        ELSE IF law \in {"tanistry", "eldership"}
        THEN {resolvePrimogeniture(gender, h, before)}
        ELSE IF law = "turkish_succession"
        THEN resolveTurkish(h, before)
        ELSE {before}

\* The heirs one pass of the loop of determineHeirs can leave the holder of a
\* title with, lines 336-347 (resolveTanistry, lines 373-374, included).
HeirsAfter(title, before) ==
    LET h == holder[title]
        law == successionLaw[title]
        gender == genderLaw[title]
    IN  IF law \in {"primogeniture", "elective_gavelkind", "gavelkind", "nomad_succession"}
        THEN {resolvePrimogeniture(gender, h, before)}
        ELSE IF law = "ultimogeniture"
        THEN {resolveUltimogeniture(gender, h, before)}
        ELSE IF law \in {"tanistry", "eldership"}
        THEN {resolvePrimogeniture(gender, h, before)}
        ELSE IF law = "turkish_succession"
        THEN resolveTurkish(h, before)
        ELSE {before}

\* resolveTanistry, lines 374-375 without the test of heir.first aside: the
\* years addYears(35) leaves the characters with, when the law calls for it.
YearsAfter(title, newHeir) ==
    IF successionLaw[title] \in {"tanistry", "eldership"} /\ newHeir # NoCharacter
    THEN [yearsAdded EXCEPT ![newHeir] = @ + 35]
    ELSE yearsAdded

\* The title the loop of determineHeirs comes to next, line 335.
NextTitle == CHOOSE t \in independentTitles \ resolved :
                 \A u \in independentTitles \ resolved : Rank(t) <= Rank(u)

\* One pass of the loop of determineHeirs, lines 335-348.
DetermineHeirs ==
    /\ pc = "determineHeirs"
    /\ independentTitles \ resolved # {}
    /\ \E newHeir \in HeirsAfter(NextTitle, heir[holder[NextTitle]]) :
          /\ heir' = [heir EXCEPT ![holder[NextTitle]] = newHeir]
          /\ yearsAdded' = YearsAfter(NextTitle, newHeir)
    /\ resolved' = resolved \cup {NextTitle}
    /\ pc' = IF independentTitles \ resolved = {NextTitle}
             THEN "assignPersonalities" ELSE pc
    /\ UNCHANGED << configVars, titleVars, independentTitles, holdingTitle, government,
                    warnings, sanity, successionLaw, genderLaw, children, female,
                    deathDate, prestige >>

Next ==
    \/ MergeIndependentBaronies
    \/ ShatterHRE
    \/ ShatterEmpires
    \/ FilterIndependentTitles
    \/ SplitVassals
    \/ CongregateProvinces
    \/ SanityCheckifyProvinces
    \/ FilterProvincelessTitles

Spec == InitWorld /\ [][Next]_vars

(***************************************************************************)
(* sanityCheckifyProvinces and filterProvincelessTitles as functions of    *)
(* the independent-title set and the province sets that congregation has   *)
(* left: any sets over the titles of SanityTitles, overlapping or not.     *)
(***************************************************************************)
SanityTitles == {"d_a", "k_a", "k_papal_state"}

InitSanity ==
    /\ pc = "sanityCheckifyProvinces"
    /\ hreMode = "NONE"
    /\ shatterEmpiresMode = "NONE"
    /\ shatterLevel = "KINGDOM"
    /\ holder = [t \in Titles |-> IF t \in SanityTitles THEN 1 ELSE 0]
    /\ liege = [t \in Titles |-> NoTitle]
    /\ deJureLiege = [t \in Titles |-> NoTitle]
    /\ vassals = [t \in Titles |-> {}]
    /\ independentTitles \in SUBSET SanityTitles
    /\ \E owned \in [SanityTitles -> SUBSET Provinces] :
          provinces = [t \in Titles |-> IF t \in SanityTitles THEN owned[t] ELSE {}]
    /\ inHRE = {}
    /\ hreEmperor = {}
    /\ generatedLiege = [t \in Titles |-> NoTitle]
    /\ generatedVassals = [t \in Titles |-> {}]
    /\ holdingTitle =
          CongregateResult(independentTitles, vassals, provinces,
                           [p \in Provinces |-> NoTitle]).holdingTitle
    /\ government = [c \in Characters |-> "feudal_government"]
    /\ warnings = {}
    /\ sanity = "unset"
    /\ NoSuccession

NextSanity == SanityCheckifyProvinces \/ FilterProvincelessTitles

SpecSanity == InitSanity /\ [][NextSanity]_vars
(***************************************************************************)
(* determineHeirs on the independent titles that reach it.  The resolver   *)
(* reads a title's laws and holder and the holder's children; the rest of  *)
(* the state is that of a world with two titles of one holder.             *)
(***************************************************************************)
SuccessionLaws ==
    {"primogeniture", "elective_gavelkind", "gavelkind", "nomad_succession",
     "ultimogeniture", "tanistry", "eldership", "turkish_succession", "feudal_elective"}

GenderLaws == {"agnatic", "cognatic", "true_cognatic", "enatic"}

\* raw prestige -0.5, 4.5, 5, 9 and 20
PrestigeChoices == {-1, 9, 10, 18, 40}

\* The world determineHeirs starts in: the titles of indeps are independent,
\* held by character 1, with the laws given; the children are as given.
SuccessionWorld(indeps) ==
    /\ pc = "determineHeirs"
    /\ hreMode = "NONE"
    /\ shatterEmpiresMode = "NONE"
    /\ shatterLevel = "KINGDOM"
    /\ holder = [t \in Titles |-> IF t \in {"c_a", "d_a", "k_a"} THEN 1 ELSE 0]
    /\ liege = [t \in Titles |-> IF t = "c_a" THEN "d_a" ELSE NoTitle]
    /\ deJureLiege = [t \in Titles |-> NoTitle]
    /\ vassals = [t \in Titles |-> IF t = "d_a" THEN {"c_a"} ELSE {}]
    /\ provinces = [t \in Titles |-> IF t \in {"c_a", "d_a"} THEN {1}
                                     ELSE IF t = "k_a" THEN {2} ELSE {}]
    /\ inHRE = {}
    /\ hreEmperor = {}
    /\ generatedLiege = [t \in Titles |-> NoTitle]
    /\ generatedVassals = [t \in Titles |-> {}]
    /\ independentTitles = indeps
    /\ holdingTitle = [p \in Provinces |-> IF p = 1 THEN "d_a" ELSE IF p = 2 THEN "k_a"
                                           ELSE NoTitle]
    /\ government = [c \in Characters |-> "feudal_government"]
    /\ warnings = {}
    /\ sanity = "passed"
    /\ heir = [c \in Characters |-> NoCharacter]
    /\ yearsAdded = [c \in Children |-> 0]
    /\ resolved = {}

\* One title under every law, its holder with any children of either sex.
InitSuccession ==
    /\ SuccessionWorld({"k_a"})
    /\ \E law \in SuccessionLaws :
          successionLaw = [t \in Titles |-> IF t = "k_a" THEN law ELSE "primogeniture"]
    /\ \E law \in GenderLaws :
          genderLaw = [t \in Titles |-> IF t = "k_a" THEN law ELSE "agnatic"]
    /\ \E mine \in SUBSET Children :
          children = [c \in Characters |-> IF c = 1 THEN mine ELSE {}]
    /\ female \in [Children -> BOOLEAN]
    /\ deathDate \in [Children -> {NoDeath, "1066.9.15"}]
    /\ prestige = [c \in Children |-> 0]

SpecSuccession == InitSuccession /\ [][DetermineHeirs]_vars

\* One title under Turkish succession, its holder with any children of any prestige.
InitTurkish ==
    /\ SuccessionWorld({"k_a"})
    /\ successionLaw = [t \in Titles |-> IF t = "k_a" THEN "turkish_succession"
                                         ELSE "primogeniture"]
    /\ genderLaw = [t \in Titles |-> "agnatic"]
    /\ \E mine \in SUBSET Children :
          children = [c \in Characters |-> IF c = 1 THEN mine ELSE {}]
    /\ female = [c \in Children |-> FALSE]
    /\ deathDate \in [Children -> {NoDeath, "1066.9.15"}]
    /\ prestige \in [Children -> PrestigeChoices]

SpecTurkish == InitTurkish /\ [][DetermineHeirs]_vars

\* One or two titles of one holder, each under its own laws.
InitHeirs ==
    /\ \E indeps \in {{"k_a"}, {"d_a", "k_a"}} :
          /\ SuccessionWorld(indeps)
          /\ \E laws \in [indeps -> SuccessionLaws] :
                successionLaw = [t \in Titles |-> IF t \in indeps THEN laws[t]
                                                  ELSE "primogeniture"]
          /\ \E laws \in [indeps -> GenderLaws] :
                genderLaw = [t \in Titles |-> IF t \in indeps THEN laws[t] ELSE "agnatic"]
    /\ children = [c \in Characters |-> IF c = 1 THEN Children ELSE {}]
    /\ female \in [Children -> BOOLEAN]
    /\ deathDate \in [Children -> {NoDeath, "1066.9.15"}]
    /\ prestige = [c \in Children |-> 0]

SpecHeirs == InitHeirs /\ [][DetermineHeirs]_vars

(***************************************************************************)
(* The pipeline without shattering on saves with four counties, where an   *)
(* empire, its kingdoms and their duchies can each hold a large share of   *)
(* their liege's land, under holders of every government.                  *)
(***************************************************************************)
SplitLiegeChoices == [t \in Titles |->
    CASE t = "e_hre" -> {NoTitle}
      [] t = "k_a" -> {NoTitle, "e_hre"}
      [] t = "k_orthodox" -> {"e_hre"}
      [] t = "k_papal_state" -> {NoTitle, "e_hre"}
      [] t = "d_a" -> {"k_a", "k_papal_state"}
      [] t = "d_b" -> {"k_a", "k_papal_state"}
      [] t = "c_a" -> {"d_a"}
      [] t = "c_b" -> {"d_a", "k_a"}
      [] t = "c_c" -> {"d_b"}
      [] t = "c_d" -> {"d_b", "k_papal_state"}
      [] t = "b_a" -> {"k_a"}]

SplitHolderChoices == [t \in Titles |->
    CASE t = "e_hre" -> {1}
      [] t = "k_a" -> {1, 2}
      [] t = "k_orthodox" -> {2}
      [] t = "k_papal_state" -> {1, 2}
      [] t = "d_a" -> {1, 2}
      [] t = "d_b" -> {1, 2}
      [] t = "c_a" -> {1}
      [] t = "c_b" -> {2}
      [] t = "c_c" -> {2}
      [] t = "c_d" -> {2}
      [] t = "b_a" -> {2}]

InitSplit ==
    /\ pc = "mergeIndependentBaronies"
    /\ hreMode = "NONE"
    /\ shatterEmpiresMode = "NONE"
    /\ shatterLevel = "KINGDOM"
    /\ holder \in ChoiceFunctions(SplitHolderChoices)
    /\ liege \in ChoiceFunctions(SplitLiegeChoices)
    /\ deJureLiege = [t \in Titles |-> NoTitle]
    /\ vassals = [t \in Titles |-> { v \in Titles : liege[v] = t }]
    /\ provinces = [t \in Titles |-> CountyProvince(t)]
    /\ inHRE = {}
    /\ hreEmperor = {}
    /\ generatedLiege = [t \in Titles |-> NoTitle]
    /\ generatedVassals = [t \in Titles |-> {}]
    /\ independentTitles = {}
    /\ holdingTitle = [p \in Provinces |-> NoTitle]
    /\ government \in [Characters -> Governments]
    /\ warnings = {}
    /\ sanity = "unset"
    /\ NoSuccession

SpecSplit == InitSplit /\ [][Next]_vars

----------------------------------------------------------------------------
(***************************************************************************)
(* The claims about the restructuring pipeline.                            *)
(***************************************************************************)

\* C1: when filterIndependentTitles, splitVassals and filterProvincelessTitles
\* have run, every title of the independent-title set has a holder (ID # 0),
\* the titles splitVassals has liberated included.
C1_FinalIndependentsHaveHolder ==
    pc = "determineHeirs" => \A t \in independentTitles : holder[t] # 0

\* floor(T/N + 0.1*T)
LiberationFloor(T, N) == (10 * T + N * T) \div (10 * N)

\* The titles that were independent before splitVassals ran: it marks every
\* title it adds with the liege it took it from.
IndependentBeforeSplit == { t \in independentTitles : generatedLiege[t] = NoTitle }

\* C3: once splitVassals has run, for every liege it looks into that has
\* N >= 1 land-holding vassals of the relevant tier and T provinces in its
\* tree, a vassal of the relevant tier held by another character than the
\* liege's has been liberated exactly if its tree has more than
\* floor(T/N + 0.1*T) provinces: not with floor(T/N + 0.1*T), and with one more.
C3_LiberationThreshold ==
    pc = "congregateProvinces" =>
        \A t \in IndependentBeforeSplit :
            LET N == RelevantVassals(t, vassals, provinces)
                T == Cardinality(coalesceProvinces(vassals, provinces, t))
            IN  SplitEligible(t, holder, government) /\ N >= 1 =>
                    \A v \in vassals[t] :
                        LET p == Cardinality(coalesceProvinces(vassals, provinces, v))
                        IN  /\ StartsWith(v, RelevantVassalPrefix(t))
                            /\ holder[v] # holder[t]
                            => /\ p <= LiberationFloor(T, N) => v \notin independentTitles
                               /\ p >= LiberationFloor(T, N) + 1 => v \in independentTitles

\* A liege with one vassal exactly at floor(T/N + 0.1*T) provinces, which stayed,
\* and one at floor(T/N + 0.1*T) + 1, which was liberated.
C3_Witness ==
    /\ pc = "congregateProvinces"
    /\ \E t \in IndependentBeforeSplit :
          LET N == RelevantVassals(t, vassals, provinces)
              T == Cardinality(coalesceProvinces(vassals, provinces, t))
          IN  /\ SplitEligible(t, holder, government)
              /\ N >= 1
              /\ \E v, w \in vassals[t] :
                    /\ StartsWith(v, RelevantVassalPrefix(t))
                    /\ StartsWith(w, RelevantVassalPrefix(t))
                    /\ holder[v] \notin {0, holder[t]}
                    /\ holder[w] \notin {0, holder[t]}
                    /\ Cardinality(coalesceProvinces(vassals, provinces, v))
                           = LiberationFloor(T, N)
                    /\ LiberationFloor(T, N) >= 1
                    /\ v \notin independentTitles
                    /\ Cardinality(coalesceProvinces(vassals, provinces, w))
                           = LiberationFloor(T, N) + 1
                    /\ w \in independentTitles
                    /\ generatedLiege[w] = t

\* C8: right after filterIndependentTitles a title is in the independent-title
\* set exactly if it has a holder, has no liege, and its holder holds some
\* title of the table whose tag starts with c_.
C8_SovereigntyClassification ==
    pc = "splitVassals" =>
        \A t \in Titles :
            t \in independentTitles <=>
                /\ holder[t] # 0
                /\ liege[t] = NoTitle
                /\ \E c \in Titles : StartsWith(c, "c_") /\ holder[c] = holder[t]

\* One title is independent through a county that is not in its vassal tree,
\* another has a holder and no liege and is left out for want of a county.
C8_Witness ==
    /\ pc = "splitVassals"
    /\ \E t \in independentTitles :
          /\ ~StartsWith(t, "c_")
          /\ \A c \in Titles :
                StartsWith(c, "c_") /\ holder[c] = holder[t] => liege[c] # t /\ c \notin vassals[t]
    /\ \E u \in Titles \ independentTitles : holder[u] # 0 /\ liege[u] = NoTitle

\* C5 as claimed: shatterHRE in HRE mode on e_hre with k_papal_state and another
\* kingdom among its vassals leaves k_papal_state its holder and its vassals,
\* leaves the other kingdom without vassals, holder and liege, and leaves every
\* duchy that was a vassal of the other kingdom without liege and in the HRE.
C5_OtherKingdomBricked ==
    [][ ( /\ pc = "shatterHRE"
          /\ hreMode = "HRE"
          /\ "k_papal_state" \in vassals["e_hre"]
          /\ \E k \in vassals["e_hre"] : StartsWith(k, "k_") /\ k # "k_papal_state" )
        => /\ holder'["k_papal_state"] = holder["k_papal_state"]
           /\ vassals'["k_papal_state"] = vassals["k_papal_state"]
           /\ \A k \in vassals["e_hre"] :
                 StartsWith(k, "k_") /\ k # "k_papal_state"
                 => /\ vassals'[k] = {}
                    /\ holder'[k] = 0
                    /\ liege'[k] = NoTitle
                    /\ \A d \in vassals[k] :
                          StartsWith(d, "d_") => liege'[d] = NoTitle /\ d \in inHRE'
      ]_vars

\* C5 as amended: the same, for every other kingdom but k_orthodox.
C5_UnprotectedKingdomBricked ==
    [][ ( /\ pc = "shatterHRE"
          /\ hreMode = "HRE"
          /\ "k_papal_state" \in vassals["e_hre"]
          /\ \E k \in vassals["e_hre"] :
                StartsWith(k, "k_") /\ k \notin {"k_papal_state", "k_orthodox"} )
        => /\ holder'["k_papal_state"] = holder["k_papal_state"]
           /\ vassals'["k_papal_state"] = vassals["k_papal_state"]
           /\ \A k \in vassals["e_hre"] :
                 StartsWith(k, "k_") /\ k \notin {"k_papal_state", "k_orthodox"}
                 => /\ vassals'[k] = {}
                    /\ holder'[k] = 0
                    /\ liege'[k] = NoTitle
                    /\ \A d \in vassals[k] :
                          StartsWith(d, "d_") => liege'[d] = NoTitle /\ d \in inHRE'
      ]_vars

\* shatterHRE has run in HRE mode: k_papal_state is a member that kept a holder
\* and a vassal, the barony and the duchy of k_a were taken from under it, and
\* k_a, which had a holder to lose, is bricked.
C5_Witness ==
    /\ pc = "shatterEmpires"
    /\ hreMode = "HRE"
    /\ "k_papal_state" \in inHRE
    /\ holder["k_papal_state"] # 0
    /\ vassals["k_papal_state"] = {"d_b"}
    /\ liege["d_b"] = "k_papal_state"
    /\ {"b_a", "d_a"} \subseteq inHRE
    /\ liege["d_a"] = NoTitle
    /\ "k_a" \notin inHRE
    /\ holder["k_a"] = 0 /\ vassals["k_a"] = {} /\ liege["k_a"] = NoTitle
    /\ holder["d_a"] = 2

\* The independent titles t, u own a province in common.
Overlap(t, u) == t # u /\ provinces[t] \cap provinces[u] # {}

\* C6: sanityCheckifyProvinces warns (per province, and with its closing
\* message) exactly if some province is in the province sets of two distinct
\* independent titles, it names exactly those provinces, without a warning the
\* province sets are pairwise disjoint, and it changes neither the
\* independent-title set nor a province set.
C6_SanityCheck ==
    /\ [](pc = "filterProvincelessTitles" =>
            /\ (sanity = "failed") <=> (\E t, u \in independentTitles : Overlap(t, u))
            /\ (warnings # {}) <=> (sanity = "failed")
            /\ \A p \in Provinces :
                  p \in warnings <=>
                      \E t, u \in independentTitles :
                          t # u /\ p \in provinces[t] /\ p \in provinces[u]
            /\ (sanity = "passed") <=> (warnings = {})
            /\ sanity = "passed" => \A t, u \in independentTitles : ~Overlap(t, u))
    /\ [][pc = "sanityCheckifyProvinces" =>
              independentTitles' = independentTitles /\ provinces' = provinces]_vars

\* The check has failed on two independent titles that still share a province.
C6_Witness ==
    /\ pc = "filterProvincelessTitles"
    /\ sanity = "failed"
    /\ 1 \in warnings /\ 2 \notin warnings
    /\ \E t, u \in independentTitles : t # u /\ 1 \in provinces[t] \cap provinces[u]

\* C7: congregateProvinces run again right after itself leaves every
\* independent title its province set and every province its holding title.
C7_CongregationIdempotent ==
    pc = "sanityCheckifyProvinces" =>
        LET again == CongregateResult(independentTitles, vassals, provinces, holdingTitle)
        IN  /\ \A t \in independentTitles : again.provinces[t] = provinces[t]
            /\ \A p \in Provinces : again.holdingTitle[p] = holdingTitle[p]

\* Congregation has run on an independent title that took provinces from its
\* vassal tree, next to a vassal splitVassals had liberated from it.
C7_Witness ==
    /\ pc = "sanityCheckifyProvinces"
    /\ \E t, v \in independentTitles :
          /\ generatedLiege[v] = t
          /\ provinces[t] # {} /\ provinces[v] # {}
          /\ \E p \in provinces[t] : holdingTitle[p] = t
          /\ \E p \in provinces[v] : holdingTitle[p] = v

\* Every vassal registered with a title names that title as its liege until
\* splitVassals frees it (the liege read on line 534 exists).
VassalsHaveTheirLiege ==
    pc \in {"splitVassals"} =>
        \A t \in Titles : \A v \in vassals[t] : liege[v] = t

----------------------------------------------------------------------------
(***************************************************************************)
(* The claims about the succession resolver.                               *)
(***************************************************************************)
LivingChildren(h) == { c \in children[h] : deathDate[c] = NoDeath }

LivingSons(h) == { c \in LivingChildren(h) : ~female[c] }

\* The title determineHeirs processed last.
LastResolved == CHOOSE t \in resolved : \A u \in resolved : Rank(u) <= Rank(t)

\* C2: under Turkish succession the heir of a holder with a living child is a
\* living child of the greatest rounded prestige among the living children.
C2_TurkishPicksHighestPrestige ==
    (resolved = {"k_a"} /\ successionLaw["k_a"] = "turkish_succession"
        /\ LivingChildren(holder["k_a"]) # {}) =>
        LET living == LivingChildren(holder["k_a"])
            chosen == heir[holder["k_a"]]
        IN  /\ chosen \in living
            /\ \A d \in living : Lround(prestige[chosen]) >= Lround(prestige[d])

\* The son the chain of adjacent IDs ends at: the lowest living son, moved on
\* to each living son whose ID is one more than the candidate's.
SonChainEnd(sons) ==
    LET first == CHOOSE c \in sons : \A d \in sons : c <= d
        run == { k \in sons : \A j \in first..k : j \in sons }
    IN  CHOOSE k \in run : \A j \in run : j <= k

\* C4: primogeniture under agnatic law makes the end of the chain of adjacent
\* living sons the heir (10 and 11 give 11, 10 and 12 give 10), and gives a
\* holder without a living son no heir.
C4_AgnaticPrimogenitureSonChain ==
    (resolved = {"k_a"} /\ genderLaw["k_a"] = "agnatic"
        /\ successionLaw["k_a"] \in {"primogeniture", "elective_gavelkind", "gavelkind",
                                     "nomad_succession", "tanistry", "eldership"}) =>
        LET sons == LivingSons(holder["k_a"])
            chosen == heir[holder["k_a"]]
        IN  /\ sons = {} => chosen = NoCharacter
            /\ sons # {} => chosen = SonChainEnd(sons)
            /\ sons = {10, 11} => chosen = 11
            /\ sons = {10, 12} => chosen = 10

\* Primogeniture has resolved a holder whose living sons are 10 and 11, next
\* to a daughter, to the heir 11.
C4_Witness ==
    /\ resolved = {"k_a"}
    /\ successionLaw["k_a"] = "primogeniture"
    /\ genderLaw["k_a"] = "agnatic"
    /\ LivingSons(holder["k_a"]) = {10, 11}
    /\ 12 \in children[holder["k_a"]] /\ female[12]
    /\ heir[holder["k_a"]] = 11

\* C9: the heir a holder has after a title is processed is the one that
\* title's laws give a holder without an heir, whatever was processed before.
C9_HeirDependsOnTitleOnly ==
    resolved # {} =>
        heir[holder[LastResolved]] \in HeirsAfter(LastResolved, NoCharacter)

\* C10: after determineHeirs a character has been aged 35 years if the
\* primogeniture strategy makes it the heir of a title under tanistry or
\* eldership, and not at all otherwise.
C10_TanistryHeirAgedOnce ==
    pc = "assignPersonalities" =>
        \A c \in Children :
            yearsAdded[c] =
                IF \E t \in independentTitles :
                      /\ successionLaw[t] \in {"tanistry", "eldership"}
                      /\ resolvePrimogeniture(genderLaw[t], holder[t], NoCharacter) = c
                THEN 35 ELSE 0

\* C11: a title's succession law selects the strategy: primogeniture,
\* elective_gavelkind, gavelkind and nomad_succession the primogeniture one,
\* ultimogeniture the ultimogeniture one (the highest living son under agnatic
\* law), tanistry and eldership primogeniture with the heir aged 35 years,
\* turkish_succession the Turkish one, and any other law assigns no heir.
C11_SuccessionLawDispatch ==
    resolved = {"k_a"} =>
        LET h == holder["k_a"]
            law == successionLaw["k_a"]
            gender == genderLaw["k_a"]
            chosen == heir[h]
            sons == LivingSons(h)
            nobodyAged == \A c \in Children : yearsAdded[c] = 0
        IN  /\ law \in {"primogeniture", "elective_gavelkind", "gavelkind", "nomad_succession"}
                => chosen = resolvePrimogeniture(gender, h, NoCharacter) /\ nobodyAged
            /\ law = "ultimogeniture"
                => /\ chosen = resolveUltimogeniture(gender, h, NoCharacter)
                   /\ gender = "agnatic" /\ sons # {}
                        => chosen \in sons /\ \A c \in sons : c <= chosen
                   /\ gender = "agnatic" /\ sons = {} => chosen = NoCharacter
                   /\ nobodyAged
            /\ law \in {"tanistry", "eldership"}
                => /\ chosen = resolvePrimogeniture(gender, h, NoCharacter)
                   /\ \A c \in Children : yearsAdded[c] = IF c = chosen THEN 35 ELSE 0
            /\ law = "turkish_succession"
                => chosen \in resolveTurkish(h, NoCharacter) /\ nobodyAged
            /\ law \notin {"primogeniture", "elective_gavelkind", "gavelkind",
                           "nomad_succession", "ultimogeniture", "tanistry", "eldership",
                           "turkish_succession"}
                => chosen = NoCharacter /\ nobodyAged

\* Ultimogeniture has made the younger of two living sons that are not
\* adjacent the heir, where primogeniture makes the elder the heir.
C11_Witness ==
    /\ resolved = {"k_a"}
    /\ successionLaw["k_a"] = "ultimogeniture"
    /\ genderLaw["k_a"] = "agnatic"
    /\ LivingSons(holder["k_a"]) = {10, 12}
    /\ heir[holder["k_a"]] = 12
    /\ resolvePrimogeniture("agnatic", holder["k_a"], NoCharacter) = 10

\* C12: shatterEmpires, when enabled, leaves every empire that had a vassal
\* without vassals and holder and its duchy and county vassals without liege;
\* a kingdom vassal kept intact (kingdom level, or k_papal_state and
\* k_orthodox) loses its liege only, any other kingdom vassal is bricked and
\* its vassals lose their liege; when disabled it changes no title.
C12_EmpireShattering ==
    [][pc = "shatterEmpires" =>
         IF shatterEmpiresMode = "NONE"
         THEN UNCHANGED titleVars
         ELSE \A e \in Titles : (StartsWith(e, "e_") /\ vassals[e] # {}) =>
                /\ vassals'[e] = {}
                /\ holder'[e] = 0
                /\ \A v \in vassals[e] :
                      /\ (StartsWith(v, "d_") \/ StartsWith(v, "c_")) => liege'[v] = NoTitle
                      /\ (StartsWith(v, "k_") /\ (shatterLevel = "KINGDOM"
                                                  \/ v \in {"k_papal_state", "k_orthodox"})) =>
                            /\ holder'[v] = holder[v]
                            /\ vassals'[v] = vassals[v]
                            /\ liege'[v] = NoTitle
                            /\ \A w \in vassals[v] : liege'[w] = liege[w]
                      /\ (StartsWith(v, "k_") /\ shatterLevel # "KINGDOM"
                                              /\ v \notin {"k_papal_state", "k_orthodox"}) =>
                            /\ holder'[v] = 0
                            /\ vassals'[v] = {}
                            /\ liege'[v] = NoTitle
                            /\ \A w \in vassals[v] : liege'[w] = NoTitle]_vars

\* Duchy-level shattering has run on e_hre: k_papal_state has lost its liege
\* and kept its holder and its duchy, and the duchy d_b, which no title but a
\* kingdom was the liege of, has been freed from under the bricked k_a.
C12_Witness ==
    /\ pc = "filterIndependentTitles"
    /\ hreMode = "NONE"
    /\ shatterEmpiresMode = "ALL"
    /\ shatterLevel = "DUCHY"
    /\ holder["e_hre"] = 0 /\ vassals["e_hre"] = {}
    /\ liege["k_papal_state"] = NoTitle /\ holder["k_papal_state"] # 0
    /\ liege["d_b"] = NoTitle
    /\ "d_b" \notin vassals["k_papal_state"]
    /\ holder["k_a"] = 0 /\ vassals["k_a"] = {} /\ liege["k_a"] = NoTitle

\* C13: when shatterHRE shatters the designated empire, every collected
\* member is flagged as an HRE member and exactly one collected member is
\* flagged as emperor: the first, in tag order, held by the empire's holder.
C13_OneEmperorAmongMembers ==
    [][(/\ pc = "shatterHRE"
        /\ hreMode # "NONE"
        /\ HreTitle(hreMode) \in Titles
        /\ vassals[HreTitle(hreMode)] # {}) =>
         LET hre == HreTitle(hreMode)
             members == HreMembers(vassals, hre)
         IN  /\ members \subseteq inHRE'
             /\ \E m \in members :
                   /\ hreEmperor' = {m}
                   /\ holder[m] = holder[hre]
                   /\ \A u \in members : holder[u] = holder[hre] => Rank(m) <= Rank(u)]_vars

\* C13 as amended: when shatterHRE shatters the designated empire, every
\* collected member is flagged as an HRE member; the first collected member,
\* in tag order, held by the empire's holder is the one member flagged as
\* emperor, and none is flagged when no collected member is held by it.
C13_FirstOwnMemberIsEmperor ==
    [][(/\ pc = "shatterHRE"
        /\ hreMode # "NONE"
        /\ HreTitle(hreMode) \in Titles
        /\ vassals[HreTitle(hreMode)] # {}) =>
         LET hre == HreTitle(hreMode)
             members == HreMembers(vassals, hre)
             own == { m \in members : holder[m] = holder[hre] }
         IN  /\ members \subseteq inHRE'
             /\ own = {} => hreEmperor' = {}
             /\ own # {} => \E m \in own : /\ hreEmperor' = {m}
                                           /\ \A u \in own : Rank(m) <= Rank(u)]_vars

\* shatterHRE has flagged the county c_a as emperor and not the duchy d_a,
\* a member of the same holder that comes later in tag order.
C13_Witness ==
    /\ pc = "shatterEmpires"
    /\ hreMode = "HRE"
    /\ hreEmperor = {"c_a"}
    /\ {"c_a", "d_a", "k_papal_state"} \subseteq inHRE
    /\ holder["c_a"] = holder["d_a"]
    /\ holder["c_a"] # holder["k_papal_state"]

\* C14: filterProvincelessTitles leaves only titles with provinces in the
\* independent-title set, and leaves in it every title that was in it with a
\* province before.
C14_OnlyProvincelessDropped ==
    [][pc = "filterProvincelessTitles" =>
         /\ \A t \in independentTitles' : provinces'[t] # {}
         /\ \A t \in independentTitles : provinces[t] # {} => t \in independentTitles'
         /\ independentTitles' \subseteq independentTitles]_vars

\* filterProvincelessTitles has dropped the barony that the classifier had
\* recognized as independent, and has kept a title with provinces.
C14_Witness ==
    /\ pc = "determineHeirs"
    /\ "b_a" \in RecognizedIndeps(holder, liege)
    /\ provinces["b_a"] = {}
    /\ "b_a" \notin independentTitles
    /\ \E t \in independentTitles : provinces[t] # {}

\* C15: when the pipeline has run, no barony that has a holder and a county
\* as de-jure liege is in the independent-title set, whatever the HRE and
\* empire shattering modes.
C15_NoSovereignBarony ==
    pc = "determineHeirs" =>
        \A t \in Titles :
            (StartsWith(t, "b_") /\ holder[t] # 0 /\ StartsWith(deJureLiege[t], "c_"))
                => t \notin independentTitles

\* The pipeline has run on a barony with a holder and a county as de-jure
\* liege that shatterHRE took from under a bricked kingdom, after the barony
\* merge: it has no liege, its holder holds a county, and it is not in the set.
C15_Witness ==
    /\ pc = "determineHeirs"
    /\ hreMode = "HRE"
    /\ "b_a" \in inHRE
    /\ holder["b_a"] # 0
    /\ deJureLiege["b_a"] = "c_a"
    /\ liege["b_a"] = NoTitle
    /\ holder["b_a"] \in CountyHolders(holder)
    /\ "b_a" \notin independentTitles

\* C16: the members shatterHRE collects, flags and detaches are the county
\* and duchy vassals of the designated empire, k_papal_state and k_orthodox
\* among its vassals, and the duchy vassals of its other kingdom vassals; a
\* county or barony under a bricked kingdom is neither flagged nor detached.
C16_HreMembersAreDuchiesOfKingdoms ==
    [][(/\ pc = "shatterHRE"
        /\ hreMode # "NONE"
        /\ HreTitle(hreMode) \in Titles
        /\ vassals[HreTitle(hreMode)] # {}) =>
         LET hre == HreTitle(hreMode)
             protected == {"k_papal_state", "k_orthodox"}
             kingdoms == { k \in vassals[hre] : StartsWith(k, "k_") /\ k \notin protected }
             expected ==
                 { v \in vassals[hre] : StartsWith(v, "c_") \/ StartsWith(v, "d_") }
                     \cup (vassals[hre] \cap protected)
                     \cup { w \in Titles : \E k \in kingdoms :
                                              w \in vassals[k] /\ StartsWith(w, "d_") }
         IN  /\ inHRE' = inHRE \cup expected
             /\ \A t \in expected : liege'[t] = NoTitle
             /\ \A k \in kingdoms : \A w \in vassals[k] :
                   ~StartsWith(w, "d_") => w \notin inHRE' /\ liege'[w] = liege[w]]_vars

LivingDaughters(h) == { c \in LivingChildren(h) : female[c] }

\* The candidate of one sex: none without a living child of that sex.
Candidate(sameSex) == IF sameSex = {} THEN NoCharacter ELSE SonChainEnd(sameSex)

\* C17: primogeniture under true_cognatic makes the candidate of the lower ID
\* the heir, but the one of the higher ID when the two IDs differ by one, the
\* only candidate when there is one, and nobody when there is none; under
\* cognatic the son candidate, else the daughter candidate; under agnatic
\* never a daughter.
C17_PrimogenitureByGenderLaw ==
    (resolved = {"k_a"}
        /\ successionLaw["k_a"] \in {"primogeniture", "elective_gavelkind", "gavelkind",
                                     "nomad_succession"}) =>
        LET h == holder["k_a"]
            chosen == heir[h]
            son == Candidate(LivingSons(h))
            daughter == Candidate(LivingDaughters(h))
            lower == IF son < daughter THEN son ELSE daughter
            higher == IF son < daughter THEN daughter ELSE son
        IN  /\ genderLaw["k_a"] = "true_cognatic" =>
                /\ (son # NoCharacter /\ daughter # NoCharacter) =>
                      chosen = IF higher - lower = 1 THEN higher ELSE lower
                /\ (son # NoCharacter /\ daughter = NoCharacter) => chosen = son
                /\ (son = NoCharacter /\ daughter # NoCharacter) => chosen = daughter
                /\ (son = NoCharacter /\ daughter = NoCharacter) => chosen = NoCharacter
            /\ genderLaw["k_a"] = "cognatic" =>
                chosen = IF son # NoCharacter THEN son ELSE daughter
            /\ genderLaw["k_a"] = "agnatic" => chosen \notin LivingDaughters(h)

\* Primogeniture under true_cognatic has made the son 11 the heir, whose
\* elder sister 10 has the ID just below his.
C17_Witness ==
    /\ resolved = {"k_a"}
    /\ successionLaw["k_a"] = "primogeniture"
    /\ genderLaw["k_a"] = "true_cognatic"
    /\ LivingSons(holder["k_a"]) = {11}
    /\ LivingDaughters(holder["k_a"]) = {10}
    /\ heir[holder["k_a"]] = 11

\* The titles a step adds to the independent-title set.
Liberated == independentTitles' \ independentTitles

\* C18: splitVassals adds a title to the independent-title set only if it was
\* a direct vassal of a title in the set before the pass that is none of
\* k_papal_state, e_outremer and e_china_west_governor, whose holder's
\* government is neither tribal nor nomadic, the pair being an empire with a
\* kingdom or a kingdom with a duchy, and their holders different; it adds no
\* county, no barony and no vassal of a title it adds, and every title it
\* adds ends without liege.
C18_SplitExclusions ==
    [][pc = "splitVassals" =>
         \A t \in Liberated :
            /\ \E l \in independentTitles :
                  /\ t \in vassals[l]
                  /\ liege[t] = l
                  /\ l \notin {"k_papal_state", "e_outremer", "e_china_west_governor"}
                  /\ government[holder[l]] \notin {"tribal_government", "nomadic_government"}
                  /\ \/ StartsWith(l, "e_") /\ StartsWith(t, "k_")
                     \/ StartsWith(l, "k_") /\ StartsWith(t, "d_")
                  /\ holder[t] # holder[l]
            /\ ~StartsWith(t, "c_") /\ ~StartsWith(t, "b_")
            /\ \A u \in Liberated : t \notin vassals[u]
            /\ liege'[t] = NoTitle]_vars

\* splitVassals has liberated the kingdom k_a from the empire and has left
\* under it the duchy d_a of another holder, whose share of the kingdom's
\* land is above the threshold.
C18_Witness ==
    /\ pc = "congregateProvinces"
    /\ generatedLiege["k_a"] = "e_hre"
    /\ "k_a" \in independentTitles
    /\ liege["d_a"] = "k_a"
    /\ holder["d_a"] # holder["k_a"]
    /\ government[holder["k_a"]] = "feudal_government"
    /\ ExceedsThreshold(Cardinality(coalesceProvinces(vassals, provinces, "d_a")),
                        Cardinality(coalesceProvinces(vassals, provinces, "k_a")),
                        RelevantVassals("k_a", vassals, provinces))
    /\ "d_a" \notin independentTitles
=============================================================================
